---- MODULE Spec2Model ----
(***************************************************************************)
(* FairShare document parsing service (src/python-service/main.py).        *)
(*                                                                         *)
(* The service exposes GET /health, POST /parse (multipart upload) and     *)
(* POST /parse-base64 (JSON).  Each parse request validates or decodes its *)
(* input, writes the bytes to a transient file made by                     *)
(* tempfile.NamedTemporaryFile(delete=False), runs the Docling converter   *)
(* on that path, exports Markdown, unlinks the file in a finally block and *)
(* returns a ParseResponse.  The only state shared between requests is the *)
(* temporary directory, modelled by fs.                                    *)
(*                                                                         *)
(* Strings whose characters matter (file names, extensions, base64 text)   *)
(* are sequences of one-character strings; bytes are integers 0..255.      *)
(* An optional value is a sequence of length at most one.                  *)
(***************************************************************************)
EXTENDS Integers, Sequences, FiniteSets, TLC

\* ------------------------------------------------------------------ bounds

\* Number of parse requests the service handles in one behaviour.
NumReqs == 2
\* Number of random names tempfile can draw for a transient file.
MaxNames == 2
\* Longest base64 content string enumerated by SpecBase64.
MaxB64Len == 5

Reqs == 1..NumReqs
Names == 1..MaxNames

None == <<>>
Some(x) == <<x>>

Max(S) == CHOOSE x \in S : \A y \in S : y <= x

\* ------------------------------------------------- str.lower, Path.suffix

LowerChar(c) ==
  CASE c = "P" -> "p" [] c = "D" -> "d" [] c = "F" -> "f"
    [] c = "J" -> "j" [] c = "G" -> "g" [] c = "N" -> "n"
    [] c = "E" -> "e" [] OTHER -> c

\* str.lower()
Lower(s) == [i \in 1..Len(s) |-> LowerChar(s[i])]

LastIndexOf(s, c) ==
  LET I == {i \in 1..Len(s) : s[i] = c} IN IF I = {} THEN 0 ELSE Max(I)

RECURSIVE StripTrailingSlashes(_)
StripTrailingSlashes(s) ==
  IF Len(s) > 0 /\ s[Len(s)] = "/"
  THEN StripTrailingSlashes(SubSeq(s, 1, Len(s) - 1))
  ELSE s

\* Path(s).name: the final path component.
PathName(s) ==
  LET t == StripTrailingSlashes(s)
      i == LastIndexOf(t, "/")
  IN  SubSeq(t, i + 1, Len(t))

\* Path(s).suffix: from the last dot of the final component, unless that dot
\* is its first or its last character.
PathSuffix(s) ==
  LET name == PathName(s)
      i == LastIndexOf(name, ".")
  IN  IF 1 < i /\ i < Len(name) THEN SubSeq(name, i, Len(name)) ELSE <<>>

DotPdf == <<".", "p", "d", "f">>
DotJpg == <<".", "j", "p", "g">>
DotJpeg == <<".", "j", "p", "e", "g">>
DotPng == <<".", "p", "n", "g">>

\* x or default, for a Python str
OrElse(s, default) == IF s = <<>> THEN default ELSE s

\* ------------------------------------------------------- /parse validation

AllowedTypeNames == {"application/pdf", "image/jpeg", "image/jpg", "image/png"}

\* allowed_types
allowed_types ==
  [t \in AllowedTypeNames |->
     CASE t = "application/pdf" -> DotPdf
       [] t = "image/jpeg" -> DotJpg
       [] t = "image/jpg" -> DotJpg
       [] t = "image/png" -> DotPng]

\* file.content_type or ""
DeclaredType(ct) == IF ct = None THEN "" ELSE ct[1]

\* file.filename or ""
DeclaredName(fn) == IF fn = None THEN <<>> ELSE fn[1]

FallbackExts == {DotPdf, DotJpg, DotJpeg, DotPng}

\* Unsupported with the .lower() of line 104 left out.
UnsupportedWithoutLower(ct, fn) ==
  /\ DeclaredType(ct) \notin DOMAIN allowed_types
  /\ PathSuffix(DeclaredName(fn)) \notin FallbackExts

\* The condition under which parse_document raises HTTPException(400).
Unsupported(ct, fn) ==
  /\ DeclaredType(ct) \notin DOMAIN allowed_types
  /\ Lower(PathSuffix(DeclaredName(fn))) \notin FallbackExts

\* The HTTPException raised by the validation.
UnsupportedError(ct) ==
  [status |-> 400,
   body |-> [detail |-> <<"Unsupported file type: ", DeclaredType(ct),
                          ". Supported: PDF, JPG, PNG">>]]

\* suffix = allowed_types.get(content_type, Path(file.filename or "").suffix or ".pdf")
UploadSuffix(ct, fn) ==
  IF DeclaredType(ct) \in DOMAIN allowed_types
  THEN allowed_types[DeclaredType(ct)]
  ELSE OrElse(PathSuffix(DeclaredName(fn)), DotPdf)

\* ext = Path(filename).suffix.lower() or ".pdf", filename defaulting to
\* "document.pdf"
Base64Ext(fn) ==
  LET filename == IF fn = None
                  THEN <<"d", "o", "c", "u", "m", "e", "n", "t">> \o DotPdf
                  ELSE fn[1]
  IN  OrElse(Lower(PathSuffix(filename)), DotPdf)

\* ------------------------------------------------------- base64.b64decode

\* Characters of the base64 alphabet that occur in the model.
B64Alphabet == {"Q", "R"}
B64Pad == "="
\* A character outside the alphabet.
B64Junk == "!"

\* table_a2b_base64: the 6-bit value of an alphabet character.
B64Value(c) == IF c = "Q" THEN 16 ELSE 17

B64Ok(bin) == [ok |-> TRUE, data |-> bin, msg |-> "none"]
B64Error(msg) == [ok |-> FALSE, data |-> <<>>, msg |-> msg]

\* binascii.a2b_base64 without strict mode, which base64.b64decode(s) calls
\* when validate is left False: characters outside the alphabet are skipped,
\* a complete pad sequence ends the parse, and an incomplete last quad is an
\* error.
RECURSIVE a2b_base64(_, _, _, _, _, _)
a2b_base64(s, i, quad_pos, leftchar, pads, bin) ==
  IF i > Len(s)
  THEN IF quad_pos = 0 THEN B64Ok(bin)
       ELSE IF quad_pos = 1
            THEN B64Error("Invalid base64-encoded string")
            ELSE B64Error("Incorrect padding")
  ELSE
    LET this_ch == s[i] IN
    IF this_ch = B64Pad
    THEN IF quad_pos >= 2 /\ quad_pos + pads + 1 >= 4
         THEN B64Ok(bin)
         ELSE a2b_base64(s, i + 1, quad_pos, leftchar,
                         IF quad_pos >= 2 THEN pads + 1 ELSE pads, bin)
    ELSE IF this_ch \notin B64Alphabet
    THEN a2b_base64(s, i + 1, quad_pos, leftchar, pads, bin)
    ELSE
      LET v == B64Value(this_ch) IN
      CASE quad_pos = 0 -> a2b_base64(s, i + 1, 1, v, 0, bin)
        [] quad_pos = 1 ->
             a2b_base64(s, i + 1, 2, v % 16, 0,
                        Append(bin, (leftchar * 4 + v \div 16) % 256))
        [] quad_pos = 2 ->
             a2b_base64(s, i + 1, 3, v % 4, 0,
                        Append(bin, (leftchar * 16 + v \div 4) % 256))
        [] quad_pos = 3 ->
             a2b_base64(s, i + 1, 0, 0, 0,
                        Append(bin, (leftchar * 64 + v) % 256))

\* base64.b64decode(content_b64)
b64decode(s) == a2b_base64(s, 1, 0, 0, 0, <<>>)

\* content_b64 = data.get("content", "")
ContentOf(c) == IF c = None THEN <<>> ELSE c[1]

\* ------------------------------------------------------------ the converter

\* converter.convert(tmp_path): the Docling document of the bytes read from
\* the file (Docling is opaque; the document is identified by its input).
ConvertDocument(bytes) == [document_of |-> bytes]

\* result.document.export_to_markdown()
export_to_markdown(result) == [markdown_of |-> result.document_of]

\* ---------------------------------------------------------------- responses

\* ParseResponse(success=True, markdown=markdown_content), sent with 200
SuccessResponse(markdown_content) ==
  [status |-> 200,
   body |-> [success |-> TRUE, markdown |-> Some(markdown_content),
             error |-> None]]

\* FailureResponse with the error message left out.
FailureResponseWithoutError(e) ==
  [status |-> 200,
   body |-> [success |-> FALSE, markdown |-> None, error |-> None]]

\* except Exception as e: ParseResponse(success=False, error=f"Failed to parse
\* document: {str(e)}"), sent with 200
FailureResponse(e) ==
  [status |-> 200,
   body |-> [success |-> FALSE, markdown |-> None,
             error |-> Some(<<"Failed to parse document: ", e>>)]]

\* {"status": "ok"}
HealthBody == [status |-> "ok"]

\* ------------------------------------------------------------------- state

VARIABLES
  pc,            \* pc[r]: the next step of request r
  endpoint,      \* endpoint[r]: "parse" or "parse-base64" once received
  content_type,  \* file.content_type of an upload (optional)
  filename,      \* file.filename / data["filename"] (optional)
  body,          \* the upload's bytes, or data["content"] (optional text)
  content,       \* the bytes read or decoded
  created,       \* the path NamedTemporaryFile created for r (optional)
  tmp_path,      \* the handler's local tmp_path (optional: bound at line 120)
  result,        \* converter.convert's result (optional)
  pending,       \* how the inner try block ended, while finally runs
  resp,          \* the response sent for r (optional)
  log,           \* log[r]: the steps r has taken, with their outcomes
  fs,            \* the temporary directory: path -> bytes
  converterUses, \* number of get_converter and convert calls so far
  healthResp     \* the body of the last /health response (optional)

reqVars == <<pc, endpoint, content_type, filename, body, content, created,
             tmp_path, result, pending, resp, log>>
vars == <<pc, endpoint, content_type, filename, body, content, created,
          tmp_path, result, pending, resp, log, fs, converterUses,
          healthResp>>

Init ==
  /\ pc = [r \in Reqs |-> "idle"]
  /\ endpoint = [r \in Reqs |-> "none"]
  /\ content_type = [r \in Reqs |-> None]
  /\ filename = [r \in Reqs |-> None]
  /\ body = [r \in Reqs |-> None]
  /\ content = [r \in Reqs |-> <<>>]
  /\ created = [r \in Reqs |-> None]
  /\ tmp_path = [r \in Reqs |-> None]
  /\ result = [r \in Reqs |-> None]
  /\ pending = [r \in Reqs |-> None]
  /\ resp = [r \in Reqs |-> None]
  /\ log = [r \in Reqs |-> <<>>]
  /\ fs = <<>>
  /\ converterUses = 0
  /\ healthResp = None

\* --------------------------------------------------------- the file system

\* fs maps each existing path to its file: the bytes it holds and, for the
\* properties only, the request whose NamedTemporaryFile call created it.
Exists(path) == path \in DOMAIN fs

\* A new empty file at path, created by request r.
FsCreate(path, r) ==
  [p \in DOMAIN fs \cup {path} |->
     IF p = path THEN [data |-> <<>>, by |-> r] ELSE fs[p]]

\* tmp_file.write(data) followed by the close: the file at path holds data.
FsWrite(path, data) ==
  IF Exists(path) THEN [fs EXCEPT ![path].data = data] ELSE fs

\* os.unlink(path)
FsUnlink(path) == [p \in DOMAIN fs \ {path} |-> fs[p]]

\* FreePaths without O_EXCL: a name is taken whether or not it exists.
AnyPaths(suffix) == {[name |-> n, suffix |-> suffix] : n \in Names}

\* The paths tempfile may create with the given suffix: mkstemp opens with
\* O_EXCL, so a name that exists is never taken.
FreePaths(suffix) ==
  {p \in {[name |-> n, suffix |-> suffix] : n \in Names} : ~Exists(p)}

\* ------------------------------------------------------------ step helpers

Logged(r, entries) == log' = [log EXCEPT ![r] = @ \o entries]

\* The handler returns response: the request is over.
Return(r, response, entries) ==
  /\ pc' = [pc EXCEPT ![r] = "done"]
  /\ resp' = [resp EXCEPT ![r] = Some(response)]
  /\ Logged(r, entries)

\* Caught with no except clause around the step: the exception leaves the
\* handler and the framework answers 500.
Escapes(r, step, e) ==
  Return(r, [status |-> 500, body |-> [detail |-> <<"Internal Server Error">>]],
         << <<step, "raised">>, <<"response", "http_error">> >>)

\* An exception raised inside the outer try, outside the inner one, reaches
\* the except clause (lines 139-143, 186-190).
Caught(r, step, e) ==
  Return(r, FailureResponse(e), << <<step, "raised">>, <<"response", "failure">> >>)

Goto(r, next, step) ==
  /\ pc' = [pc EXCEPT ![r] = next]
  /\ Logged(r, << <<step, "ok">> >>)
  /\ UNCHANGED resp

\* How the inner try block (lines 122-133, 173-181) ended: with a return of
\* response, or with an exception for which the except clause will build
\* response, unless the finally block raises first.
Returning(response) == [kind |-> "return", response |-> response]
Raising(e) == [kind |-> "raise", response |-> FailureResponse(e)]

\* An exception raised inside the inner try: the finally block runs next.
RaisedInTry(r, step, e) ==
  /\ pending' = [pending EXCEPT ![r] = Some(Raising(e))]
  /\ pc' = [pc EXCEPT ![r] = "finally"]
  /\ Logged(r, << <<step, "raised">> >>)
  /\ UNCHANGED resp

\* ------------------------------------------------------------------ /health

\* health_check building a converter before it answers.
health_check_with_converter ==
  /\ healthResp' = Some(HealthBody)
  /\ converterUses' = converterUses + 1
  /\ UNCHANGED <<reqVars, fs>>

\* GET /health
health_check ==
  /\ healthResp' = Some(HealthBody)
  /\ UNCHANGED <<reqVars, fs, converterUses>>

\* ------------------------------------------------------------------- /parse

\* POST /parse: the request arrives and its declared type is validated.
ParseValidate(r, ct, fn, bytes) ==
  /\ pc[r] = "idle"
  /\ endpoint' = [endpoint EXCEPT ![r] = "parse"]
  /\ content_type' = [content_type EXCEPT ![r] = ct]
  /\ filename' = [filename EXCEPT ![r] = fn]
  /\ body' = [body EXCEPT ![r] = bytes]
  /\ IF Unsupported(ct, fn)
     THEN Return(r, UnsupportedError(ct),
                 << <<"validate", "raised">>, <<"response", "http_error">> >>)
     ELSE Goto(r, "read", "validate")
  /\ UNCHANGED <<content, created, tmp_path, result, pending, fs,
                 converterUses, healthResp>>

\* content = await file.read()
ReadUpload(r) ==
  /\ pc[r] = "read"
  /\ \E ok \in BOOLEAN :
       IF ok
       THEN /\ content' = [content EXCEPT ![r] = body[r]]
            /\ Goto(r, "create", "read")
       ELSE /\ Caught(r, "read", "read failed")
            /\ UNCHANGED content
  /\ UNCHANGED <<endpoint, content_type, filename, body, created, tmp_path,
                 result, pending, fs, converterUses, healthResp>>

\* ------------------------------------------------------------ /parse-base64

\* POST /parse-base64: the request arrives and its content is decoded.
Base64Decode(r, c, fn) ==
  /\ pc[r] = "idle"
  /\ endpoint' = [endpoint EXCEPT ![r] = "parse-base64"]
  /\ filename' = [filename EXCEPT ![r] = fn]
  /\ body' = [body EXCEPT ![r] = c]
  /\ LET decoded == b64decode(ContentOf(c)) IN
       IF decoded.ok
       THEN /\ content' = [content EXCEPT ![r] = decoded.data]
            /\ Goto(r, "create", "decode")
       ELSE /\ Caught(r, "decode", decoded.msg)
            /\ UNCHANGED content
  /\ UNCHANGED <<content_type, created, tmp_path, result, pending, fs,
                 converterUses, healthResp>>

\* ------------------------------------------- the steps both handlers share

\* The suffix of the transient file.
TempSuffix(r) ==
  IF endpoint[r] = "parse"
  THEN UploadSuffix(content_type[r], filename[r])
  ELSE Base64Ext(filename[r])

\* with tempfile.NamedTemporaryFile(delete=False, suffix=...) as tmp_file:
\* the file is created empty, or the creation raises.
CreateTemp(r) ==
  /\ pc[r] = "create"
  /\ \/ \E p \in FreePaths(TempSuffix(r)) :
          /\ fs' = FsCreate(p, r)
          /\ created' = [created EXCEPT ![r] = Some(p)]
          /\ Goto(r, "write", "create")
     \/ /\ Caught(r, "create", "cannot create temporary file")
        /\ UNCHANGED <<fs, created>>
  /\ UNCHANGED <<endpoint, content_type, filename, body, content, tmp_path,
                 result, pending, converterUses, healthResp>>

\* tmp_file.write(content); tmp_path = tmp_file.name; the with block closes
\* the file.  delete=False: when the write raises, the file stays and
\* tmp_path is never bound.
WriteTemp(r) ==
  /\ pc[r] = "write"
  /\ \E ok \in BOOLEAN :
       IF ok
       THEN /\ fs' = FsWrite(created[r][1], content[r])
            /\ tmp_path' = [tmp_path EXCEPT ![r] = created[r]]
            /\ Goto(r, "construct", "write")
       ELSE /\ Caught(r, "write", "write failed")
            /\ UNCHANGED <<fs, tmp_path>>
  /\ UNCHANGED <<endpoint, content_type, filename, body, content, created,
                 result, pending, converterUses, healthResp>>

\* converter = get_converter()
GetConverter(r) ==
  /\ pc[r] = "construct"
  /\ converterUses' = converterUses + 1
  /\ \E ok \in BOOLEAN :
       IF ok
       THEN Goto(r, "convert", "construct") /\ UNCHANGED pending
       ELSE RaisedInTry(r, "construct", "converter construction failed")
  /\ UNCHANGED <<endpoint, content_type, filename, body, content, created,
                 tmp_path, result, fs, healthResp>>

\* result = converter.convert(tmp_path): reads the file at tmp_path.  The
\* conversion may raise on any input; it always raises when the file is
\* missing or empty, which is no document.
Convert(r) ==
  /\ pc[r] = "convert"
  /\ converterUses' = converterUses + 1
  /\ \E ok \in BOOLEAN :
       IF ok /\ Exists(tmp_path[r][1]) /\ fs[tmp_path[r][1]].data # <<>>
       THEN /\ result' = [result EXCEPT ![r] =
                            Some(ConvertDocument(fs[tmp_path[r][1]].data))]
            /\ Goto(r, "export", "convert")
            /\ UNCHANGED pending
       ELSE /\ RaisedInTry(r, "convert", "conversion failed")
            /\ UNCHANGED result
  /\ UNCHANGED <<endpoint, content_type, filename, body, content, created,
                 tmp_path, fs, healthResp>>

\* markdown_content = result.document.export_to_markdown();
\* return ParseResponse(success=True, markdown=markdown_content)
Export(r) ==
  /\ pc[r] = "export"
  /\ \E ok \in BOOLEAN :
       IF ok
       THEN /\ pending' = [pending EXCEPT ![r] = Some(Returning(
                  SuccessResponse(export_to_markdown(result[r][1]))))]
            /\ pc' = [pc EXCEPT ![r] = "finally"]
            /\ Logged(r, << <<"export", "ok">> >>)
            /\ UNCHANGED resp
       ELSE RaisedInTry(r, "export", "export failed")
  /\ UNCHANGED <<endpoint, content_type, filename, body, content, created,
                 tmp_path, result, fs, converterUses, healthResp>>

\* os.unlink(tmp_path) returned: the try block's return or exception goes on.
Unlinked(r) ==
  Return(r, pending[r][1].response,
         << <<"unlink", "ok">>,
            <<"response", IF pending[r][1].kind = "return"
                          THEN "success" ELSE "failure">> >>)

\* UnlinkRaised with the unlink error swallowed: the try block's outcome stands.
UnlinkRaisedSwallowed(r) ==
  Return(r, pending[r][1].response,
         << <<"unlink", "raised">>,
            <<"response", IF pending[r][1].kind = "return"
                          THEN "success" ELSE "failure">> >>)

\* os.unlink(tmp_path) raised: its exception replaces the try block's return
\* or exception and reaches the except clause.
UnlinkRaised(r) == Caught(r, "unlink", "unlink failed")

\* finally: os.unlink(tmp_path)
Unlink(r) ==
  /\ pc[r] = "finally"
  /\ \E ok \in BOOLEAN :
       IF ok /\ Exists(tmp_path[r][1])
       THEN fs' = FsUnlink(tmp_path[r][1]) /\ Unlinked(r)
       ELSE UNCHANGED fs /\ UnlinkRaised(r)
  /\ UNCHANGED <<endpoint, content_type, filename, body, content, created,
                 tmp_path, result, pending, converterUses, healthResp>>

\* ------------------------------------------------------------------ inputs

\* The document request r uploads: different requests, different documents.
UploadBodies(r) == {<<r>>}

\* Spec: concurrent requests to both endpoints, a few inputs of each kind.
SomeContentTypes == {Some("application/pdf"), Some("text/plain")}
SomeFileNames == {Some(<<"n", ".", "t", "x", "t">>)}
SomeB64Contents == {Some(<<"Q", "Q", "=", "=">>), Some(<<"Q">>)}

\* SpecUpload: one upload, every declared type and file name below.
ContentTypes ==
  {None, Some(""), Some("application/pdf"), Some("image/jpeg"),
   Some("image/jpg"), Some("image/png"), Some("text/plain"),
   Some("Application/PDF")}
Stems ==
  {<<>>, <<"a">>, <<"a", ".", "b">>, <<"d", "/", "a">>,
   <<"a", ".", "p", "d", "f", "/", "b">>}
Extensions ==
  {<<>>, <<".">>, <<"/">>, DotPdf, DotJpg, DotJpeg, DotPng,
   <<".", "P", "D", "F">>, <<".", "J", "p", "g">>, <<".", "J", "P", "E", "G">>,
   <<".", "P", "n", "g">>, <<".", "t", "x", "t">>}
FileNames == {None} \cup {Some(stem \o ext) : stem \in Stems, ext \in Extensions}

\* SpecBase64: one JSON request, every content string up to MaxB64Len over
\* two alphabet characters, the pad and a character outside the alphabet.
B64Chars == B64Alphabet \cup {B64Pad, B64Junk}
RECURSIVE Strings(_)
Strings(n) ==
  IF n = 0 THEN {<<>>}
  ELSE LET shorter == Strings(n - 1) IN
       shorter \cup {Append(t, c) : t \in {u \in shorter : Len(u) = n - 1},
                                     c \in B64Chars}
B64Contents == {None} \cup {Some(t) : t \in Strings(MaxB64Len)}
B64FileNames == {None, Some(<<"a", ".", "P", "N", "G">>), Some(<<"a">>)}

\* ---------------------------------------------------------- specifications

\* The steps after the payload is in memory, the same in both handlers.
Step(r) ==
  \/ CreateTemp(r)
  \/ WriteTemp(r)
  \/ GetConverter(r)
  \/ Convert(r)
  \/ Export(r)
  \/ Unlink(r)

\* Concurrent requests to /parse and /parse-base64.
Next ==
  \/ \E r \in Reqs :
        /\ pc[r] = "idle"
        /\ \E ct \in SomeContentTypes, fn \in SomeFileNames,
              bytes \in UploadBodies(r) : ParseValidate(r, ct, fn, bytes)
  \/ \E r \in Reqs :
        /\ pc[r] = "idle"
        /\ \E c \in SomeB64Contents, fn \in SomeFileNames :
              Base64Decode(r, c, fn)
  \/ \E r \in Reqs : ReadUpload(r)
  \/ \E r \in Reqs : Step(r)

Spec == Init /\ [][Next]_vars

\* /health polled while one request of either kind is served.
NextHealth ==
  \/ health_check
  \/ /\ pc[1] = "idle"
     /\ \E ct \in SomeContentTypes, fn \in SomeFileNames,
           bytes \in UploadBodies(1) : ParseValidate(1, ct, fn, bytes)
  \/ /\ pc[1] = "idle"
     /\ \E c \in SomeB64Contents, fn \in SomeFileNames : Base64Decode(1, c, fn)
  \/ ReadUpload(1)
  \/ Step(1)

SpecHealth == Init /\ [][NextHealth]_vars

\* One /parse upload, over all declared types and file names.
NextUpload ==
  \/ /\ pc[1] = "idle"
     /\ \E ct \in ContentTypes, fn \in FileNames, bytes \in UploadBodies(1) :
           ParseValidate(1, ct, fn, bytes)
  \/ ReadUpload(1)
  \/ Step(1)

SpecUpload == Init /\ [][NextUpload]_vars

\* One /parse-base64 request, over all content strings.
NextBase64 ==
  \/ /\ pc[1] = "idle"
     /\ \E c \in B64Contents, fn \in B64FileNames : Base64Decode(1, c, fn)
  \/ Step(1)

SpecBase64 == Init /\ [][NextBase64]_vars

\* ------------------------------------------------------------- properties

Done(r) == pc[r] = "done"
Response(r) == resp[r][1]
Took(r, step, outcome) == \E i \in 1..Len(log[r]) : log[r][i] = <<step, outcome>>

\* A file created by request r is on the file system.
FileOf(r) == \E p \in DOMAIN fs : fs[p].by = r

\* The response is the in-band failure envelope, sent with 200.
InBandFailure(response) ==
  /\ response.status = 200
  /\ response.body.success = FALSE
  /\ response.body.markdown = None
  /\ Len(response.body.error) = 1
  /\ Len(response.body.error[1]) = 2
  /\ response.body.error[1][1] = "Failed to parse document: "

\* The declared types and the file name extensions the service supports.
SupportedTypes == {"application/pdf", "image/jpeg", "image/jpg", "image/png"}
SupportedExts == {DotPdf, DotJpg, DotJpeg, DotPng}

\* C1: once a request to /parse or /parse-base64 has its response, no
\* transient file that the request created is left on the file system.
C1_NoTransientFileRemains ==
  \A r \in Reqs : Done(r) => ~FileOf(r)

\* C2: a /parse upload is answered 400 exactly when its declared content type
\* is not a supported type and the lower-cased extension of its file name is
\* not a supported extension; the 400 message contains the declared type;
\* every other upload passes validation and goes on to be read and converted.
C2_RejectedIffUnsupported ==
  \A r \in Reqs :
    (pc[r] # "idle" /\ endpoint[r] = "parse") =>
      LET declared == IF content_type[r] = None THEN "" ELSE content_type[r][1]
          name == IF filename[r] = None THEN <<>> ELSE filename[r][1]
          unsupported == /\ declared \notin SupportedTypes
                         /\ Lower(PathSuffix(name)) \notin SupportedExts
      IN  IF unsupported
          THEN /\ Done(r)
               /\ Response(r).status = 400
               /\ \E i \in 1..Len(Response(r).body.detail) :
                     Response(r).body.detail[i] = declared
               /\ created[r] = None
          ELSE /\ log[r][1] = <<"validate", "ok">>
               /\ Done(r) => Response(r).status = 200

\* C2 witness: an upload declared text/plain and named notes-like *.txt was
\* answered 400.
C2_Witness ==
  /\ Done(1)
  /\ content_type[1] = Some("text/plain")
  /\ filename[1] = Some(<<"a", ".", "t", "x", "t">>)
  /\ Response(1).status = 400

\* C3: in both handlers every exception raised after the validation is
\* answered in band, with 200 and success false and an error that starts
\* "Failed to parse document: "; the only other answer a handler gives is the
\* 400 of /parse's validation.
C3_ExceptionsAnsweredInBand ==
  \A r \in Reqs :
    Done(r) =>
      /\ (\E i \in 1..Len(log[r]) :
            log[r][i][2] = "raised" /\ log[r][i][1] # "validate")
           => InBandFailure(Response(r))
      /\ Response(r).status # 200 =>
           /\ Response(r).status = 400
           /\ endpoint[r] = "parse"
           /\ log[r] = << <<"validate", "raised">>, <<"response", "http_error">> >>

\* C3 witness: one request whose unlink raised and one whose decode raised
\* have both been answered.
C3_Witness ==
  \E r1, r2 \in Reqs :
    /\ Done(r1) /\ Took(r1, "unlink", "raised")
    /\ Done(r2) /\ Took(r2, "decode", "raised")

\* C4: in every response envelope, success true comes with the markdown the
\* converter exported for the request's payload and no error, and success
\* false comes with an error and no markdown.
C4_EnvelopeShape ==
  \A r \in Reqs :
    (Done(r) /\ Response(r).status = 200) =>
      LET env == Response(r).body IN
        IF env.success
        THEN /\ env.markdown = Some([markdown_of |-> content[r]])
             /\ env.error = None
        ELSE /\ env.markdown = None
             /\ env.error # None

\* C4 witness: one request answered success true and another, whose export
\* raised, answered success false.
C4_Witness ==
  \E r1, r2 \in Reqs :
    /\ Done(r1) /\ Response(r1).status = 200 /\ Response(r1).body.success
    /\ Done(r2) /\ Took(r2, "export", "raised")

\* RFC 4648 base64: only alphabet characters, in groups of four, the last
\* group padded with at most two "=".
ValidBase64(s) ==
  /\ Len(s) % 4 = 0
  /\ \A i \in 1..Len(s) :
       \/ s[i] \in B64Alphabet
       \/ /\ s[i] = B64Pad
          /\ i >= Len(s) - 1
          /\ \A j \in i..Len(s) : s[j] = B64Pad

\* C5: a /parse-base64 request whose content is not valid base64 is answered
\* in band with success false and an error that starts "Failed to parse
\* document: ", never with success true.
C5_InvalidBase64Fails ==
  \A r \in Reqs :
    (Done(r) /\ endpoint[r] = "parse-base64"
       /\ ~ValidBase64(IF body[r] = None THEN <<>> ELSE body[r][1]))
      => InBandFailure(Response(r))

\* Request r holds a transient file: created and not yet unlinked.
Holding(r) == pc[r] \in {"write", "construct", "convert", "export", "finally"}

\* C6: two /parse requests with different documents that hold transient files
\* at the same time hold different paths; while a request holds its file the
\* file exists, is its own and, once written, has the request's bytes; and a
\* success response carries the markdown of the request's own upload.
C6_NoInterference ==
  \A r1, r2 \in Reqs :
    (r1 # r2 /\ endpoint[r1] = "parse" /\ endpoint[r2] = "parse"
       /\ body[r1] # body[r2]) =>
      /\ (Holding(r1) /\ Holding(r2)) => created[r1] # created[r2]
      /\ Holding(r1) =>
           /\ Exists(created[r1][1])
           /\ fs[created[r1][1]].by = r1
           /\ pc[r1] # "write" => fs[created[r1][1]].data = body[r1]
      /\ (Done(r1) /\ Response(r1).status = 200 /\ Response(r1).body.success) =>
           Response(r1).body.markdown = Some([markdown_of |-> body[r1]])

\* C6 witness: two /parse requests with different documents, both converted
\* and exported, both still holding their transient files.
C6_Witness ==
  /\ endpoint[1] = "parse" /\ endpoint[2] = "parse"
  /\ body[1] # body[2]
  /\ pc[1] = "finally" /\ pc[2] = "finally"
  /\ pending[1][1].kind = "return" /\ pending[2][1].kind = "return"

\* C7: /health can be called in every state; whenever it answers, the answer
\* is {status: "ok"} and neither the converter's use count, nor the file
\* system, nor any request's state changes.
C7_HealthIsStatic ==
  /\ [](ENABLED health_check)
  /\ [](healthResp \in {None, Some([status |-> "ok"])})
  /\ [][healthResp' # healthResp =>
          /\ healthResp' = Some([status |-> "ok"])
          /\ converterUses' = converterUses
          /\ fs' = fs
          /\ UNCHANGED reqVars]_vars

\* C7 witness: /health has answered while a request is in flight, converted
\* and not yet exported, its transient file on disk.
C7_Witness ==
  /\ healthResp = Some([status |-> "ok"])
  /\ pc[1] = "export"
  /\ FileOf(1)

\* The extension the transient file of an upload must have.
C8_SuffixMatchesType(r) ==
  LET declared == IF content_type[r] = None THEN "" ELSE content_type[r][1]
      name == IF filename[r] = None THEN <<>> ELSE filename[r][1]
      suffix == created[r][1].suffix
  IN  IF declared \in SupportedTypes
      THEN suffix = (CASE declared = "application/pdf" -> DotPdf
                       [] declared = "image/jpeg" -> DotJpg
                       [] declared = "image/jpg" -> DotJpg
                       [] declared = "image/png" -> DotPng)
      ELSE IF PathSuffix(name) # <<>>
      THEN suffix = PathSuffix(name) /\ suffix \in SupportedExts
      ELSE suffix = DotPdf

\* C8: the transient file of every accepted /parse upload has the extension
\* of the resolved type: the one mapped to the declared type when that type
\* is supported, otherwise the supported extension (.pdf, .jpg, .jpeg or
\* .png) found in the file name, and .pdf when neither decides.
C8_TransientSuffix ==
  \A r \in Reqs :
    (endpoint[r] = "parse" /\ created[r] # None) => C8_SuffixMatchesType(r)

\* The place of a step in the order of a /parse request.
Rank(step) ==
  CASE step = "validate" -> 1 [] step = "read" -> 2 [] step = "create" -> 3
    [] step = "write" -> 4 [] step = "construct" -> 5 [] step = "convert" -> 6
    [] step = "export" -> 7 [] step = "unlink" -> 8 [] step = "response" -> 9

\* C9: a /parse request takes its steps in the order validation, file write,
\* converter invocation, export, deletion, response, each at most once; a
\* step other than the deletion and the response is taken only after every
\* earlier step succeeded; a rejected request creates no file and invokes no
\* converter; and the transient file is deleted when the response is
\* returned.
C9_StepOrder ==
  \A r \in Reqs :
    endpoint[r] = "parse" =>
      /\ \A i, j \in 1..Len(log[r]) :
           i < j => Rank(log[r][i][1]) < Rank(log[r][j][1])
      /\ \A i, j \in 1..Len(log[r]) :
           (j < i /\ log[r][i][1] \notin {"unlink", "response"})
             => log[r][j][2] = "ok"
      /\ Took(r, "validate", "raised") =>
           /\ created[r] = None
           /\ ~FileOf(r)
           /\ \A i \in 1..Len(log[r]) :
                log[r][i][1] \notin {"construct", "convert", "export"}
      /\ Done(r) => ~FileOf(r)

\* C10: when conversion and export succeeded and the deletion of the
\* transient file raised, the answer is the in-band failure carrying the
\* deletion's message; a success true answer is given only after the deletion
\* completed without error.
C10_UnlinkErrorWins ==
  \A r \in Reqs :
    Done(r) =>
      /\ (Took(r, "export", "ok") /\ Took(r, "unlink", "raised")) =>
           /\ InBandFailure(Response(r))
           /\ Response(r).body.error[1][2] = "unlink failed"
      /\ (Response(r).status = 200 /\ Response(r).body.success) =>
           /\ Took(r, "unlink", "ok")
           /\ ~FileOf(r)

\* C10 witness: requests of both kinds were answered after their export
\* succeeded and their unlink raised.
C10_Witness ==
  \E r1, r2 \in Reqs :
    /\ endpoint[r1] = "parse" /\ endpoint[r2] = "parse-base64"
    /\ Done(r1) /\ Took(r1, "export", "ok") /\ Took(r1, "unlink", "raised")
    /\ Done(r2) /\ Took(r2, "export", "ok") /\ Took(r2, "unlink", "raised")

====
